---- MODULE Spec2Model ----
(***************************************************************************)
(* Discrete-event model of the two transit simulations:                   *)
(*   BaselineSimulation (src/src/simulation/baseline_sim.py), the static   *)
(*   schedule policy, and DynamicSimulation                                *)
(*   (src/src/simulation/dynamic_sim.py), the forecast-driven policy.      *)
(* Both run on a simpy Environment: a heap of events ordered by            *)
(* (time, priority, event id).  A process is a generator; the event it     *)
(* yields resumes it when the event is popped.                             *)
(***************************************************************************)
EXTENDS Integers, Sequences, FiniteSets, TLC

VARIABLES
    policy,            \* "static" (BaselineSimulation) or "dynamic" (DynamicSimulation)
    phase,             \* "running" inside env.run(), "done" once run() has returned,
                       \* "reported" after print_results(), "config_error" when
                       \* the constructor raised
    now,               \* env.now
    queue,             \* env._queue: the set of scheduled events
    eid,               \* env._eid: the next event id
    passengers,        \* self.passengers, sorted by request_time
    schedule_by_stop,  \* static: self.schedule_by_stop (stop -> arrival seconds)
    proc,              \* static: per passenger process, its position and local wait_time
    wait_times,        \* self.wait_times
    passengers_failed, \* static: self.passengers_failed
    passengers_served, \* self.passengers_served
    results,           \* the dictionary run() returns, NoResult before
    served_log,        \* history: passenger ids in the order they were counted served
    failed_log,        \* history: passenger ids in the order they were counted failed
    cluster_to_stops,  \* dynamic: self.cluster_to_stops (cluster id -> list of stops)
    prophet_models,    \* dynamic: self.prophet_models (cluster id -> forecast model)
    model_files,       \* dynamic: the cluster ids whose model file exists in MODELS_DIR
    stop_coordinates,  \* dynamic: self.stop_coordinates (stop -> position)
    stop_queues,       \* dynamic: self.stop_queues (stop -> deque of waiting passengers)
    active_buses,      \* dynamic: self.active_buses (cluster id -> count)
    total_km,          \* dynamic: self.total_km
    gen,               \* dynamic: locals of passenger_generator
    buses,             \* dynamic: one record per bus_process started, its locals
    board_log,         \* history: one record per passenger popped by a bus
    arrival_log        \* history: one record per passenger appended to a stop queue

staticVars == <<schedule_by_stop, proc, passengers_failed>>
dynamicVars == <<cluster_to_stops, prophet_models, model_files, stop_coordinates,
                 stop_queues,
                 active_buses, total_km, gen, buses, board_log, arrival_log>>
inputVars == <<policy, passengers, schedule_by_stop, cluster_to_stops,
               prophet_models, model_files, stop_coordinates>>

vars == <<policy, phase, now, queue, eid, passengers, schedule_by_stop, proc,
          wait_times, passengers_failed, passengers_served, results,
          served_log, failed_log, cluster_to_stops, prophet_models, model_files,
          stop_coordinates, stop_queues, active_buses, total_km, gen, buses,
          board_log, arrival_log>>

-----------------------------------------------------------------------------
(* Bounds of the model *)

MaxPassengers == 2

(* Inputs of the static policy *)
StaticStops == {"S1", "S2"}
StaticOrigins == {"S1", "S2"}
RequestTimes == {0, 900, 3000, 3600, 7300}
ArrivalTimes == {3600, 4000, 7200}

(* Program constants *)
TOTAL_KM == 645000
KM_COST_RUPEES == 116
KM_COST_PAISE == 26
WAIT_TIMEOUT == 45 * 60

NoResult == [none |-> TRUE]

-----------------------------------------------------------------------------
(* Helpers *)

RECURSIVE SumSeq(_)
SumSeq(s) == IF s = <<>> THEN 0 ELSE Head(s) + SumSeq(Tail(s))

(* Mutant: the latest element instead of the earliest. *)
MaxOf(S) == CHOOSE x \in S : \A y \in S : x >= y

MinOf(S) == CHOOSE x \in S : \A y \in S : x <= y

IsSortedByRequestTime(ps) ==
    \A i \in 1..(Len(ps) - 1) : ps[i].request_time <= ps[i + 1].request_time

(* A quotient num/den kept exact; 0 is Ratio(0, 1). *)
Ratio(n, d) == [num |-> n, den |-> d]
Zero == Ratio(0, 1)

(* km * 116.26 as rupees and paise. *)
Money(km) ==
    [rupees |-> km * KM_COST_RUPEES + ((km * KM_COST_PAISE) \div 100),
     paise  |-> (km * KM_COST_PAISE) % 100]

-----------------------------------------------------------------------------
(* The simpy event heap.  An Initialize event (env.process) is URGENT, a   *)
(* Timeout and a process-termination event are NORMAL.                     *)

Event(t, urg, id, k, p) ==
    [time |-> t, urgent |-> urg, eid |-> id, kind |-> k, proc |-> p]

(* Mutant: the heap compares time and priority only. *)
BeforeWithoutEid(e, f) ==
    \/ e.time < f.time
    \/ e.time = f.time /\ e.urgent /\ ~f.urgent

(* Mutant: the heap compares time and event id only, first in first out. *)
BeforeFifoOnly(e, f) ==
    \/ e.time < f.time
    \/ e.time = f.time /\ e.eid < f.eid

Before(e, f) ==
    \/ e.time < f.time
    \/ /\ e.time = f.time
       /\ \/ e.urgent /\ ~f.urgent
          \/ e.urgent = f.urgent /\ e.eid < f.eid

(* The events env.step() may pop: those no other event precedes. *)
NextEvents(q) == {e \in q : \A f \in q \ {e} : ~Before(f, e)}

Pass(p) == <<"pass", p>>

-----------------------------------------------------------------------------
(* Static policy: BaselineSimulation *)

(* Mutant: arrivals are not filtered by the request time. *)
next_buses_unfiltered(stop_schedule, request_time) == stop_schedule

(* Mutant: an arrival at the request time counts as a next bus. *)
next_buses_inclusive(stop_schedule, request_time) ==
    {a \in stop_schedule : a >= request_time}

next_buses(stop_schedule, request_time) ==
    {a \in stop_schedule : a > request_time}

(* Mutant: a wait of exactly the threshold times out. *)
TimedOutInclusive(wait_time) == wait_time >= WAIT_TIMEOUT

TimedOut(wait_time) == wait_time > WAIT_TIMEOUT

(* Mutant: every process looks up the stop of the first passenger (the     *)
(* variable is shared by the processes instead of local to each).          *)
LookupSharedOrigin(origin_id, request_time) ==
    LET shared == passengers[1].origin_id IN
    IF shared \notin DOMAIN schedule_by_stop
    THEN [kind |-> "failed", why |-> "no_schedule", wait_time |-> 0]
    ELSE LET nb == next_buses(schedule_by_stop[shared], request_time) IN
         IF nb = {}
         THEN [kind |-> "failed", why |-> "no_bus", wait_time |-> 0]
         ELSE LET wait_time == MinOf(nb) - request_time IN
              IF TimedOut(wait_time)
              THEN [kind |-> "failed", why |-> "timeout", wait_time |-> wait_time]
              ELSE [kind |-> "wait", why |-> "", wait_time |-> wait_time]

(* passenger_process from the schedule lookup to its next yield or return. *)
Lookup(origin_id, request_time) ==
    IF origin_id \notin DOMAIN schedule_by_stop
    THEN [kind |-> "failed", why |-> "no_schedule", wait_time |-> 0]
    ELSE LET nb == next_buses(schedule_by_stop[origin_id], request_time) IN
         IF nb = {}
         THEN [kind |-> "failed", why |-> "no_bus", wait_time |-> 0]
         ELSE LET wait_time == MinOf(nb) - request_time IN
              IF TimedOut(wait_time)
              THEN [kind |-> "failed", why |-> "timeout", wait_time |-> wait_time]
              ELSE [kind |-> "wait", why |-> "", wait_time |-> wait_time]

(* The process of passenger p, resumed at time t with event e popped,      *)
(* runs from line 104 to its next yield or to its return.                  *)
LookupSegment(p, e, t) ==
    LET o == Lookup(passengers[p].origin_id, passengers[p].request_time) IN
    IF o.kind = "failed"
    THEN /\ passengers_failed' = passengers_failed + 1
         /\ failed_log' = Append(failed_log, p)
         /\ proc' = [proc EXCEPT ![p] = [pc |-> "ended", why |-> o.why,
                                         wait_time |-> o.wait_time, at |-> t]]
         /\ queue' = (queue \ {e}) \cup {Event(t, FALSE, eid, "end", Pass(p))}
         /\ eid' = eid + 1
         /\ UNCHANGED <<wait_times, passengers_served, served_log>>
    ELSE /\ proc' = [proc EXCEPT ![p] = [pc |-> "to_bus", why |-> "",
                                         wait_time |-> o.wait_time, at |-> t]]
         /\ queue' = (queue \ {e})
                       \cup {Event(t + o.wait_time, FALSE, eid, "timeout", Pass(p))}
         /\ eid' = eid + 1
         /\ UNCHANGED <<passengers_failed, failed_log, wait_times,
                        passengers_served, served_log>>

(* Initialize event of a passenger process: lines 97-102, and on when the  *)
(* request time is not in the future.                                      *)
PassengerStart(p) ==
    /\ policy = "static" /\ phase = "running"
    /\ \E e \in NextEvents(queue) :
         /\ e.kind = "init" /\ e.proc = Pass(p)
         /\ now' = e.time
         /\ IF passengers[p].request_time > e.time
            THEN /\ proc' = [proc EXCEPT ![p].pc = "to_request"]
                 /\ queue' = (queue \ {e})
                      \cup {Event(e.time + (passengers[p].request_time - e.time),
                                  FALSE, eid, "timeout", Pass(p))}
                 /\ eid' = eid + 1
                 /\ UNCHANGED <<passengers_failed, failed_log, wait_times,
                                passengers_served, served_log>>
            ELSE LookupSegment(p, e, e.time)
    /\ UNCHANGED <<policy, phase, passengers, schedule_by_stop, results>>
    /\ UNCHANGED dynamicVars

(* The timeout to the request time fires: lines 104-132. *)
PassengerRequest(p) ==
    /\ policy = "static" /\ phase = "running"
    /\ proc[p].pc = "to_request"
    /\ \E e \in NextEvents(queue) :
         /\ e.kind = "timeout" /\ e.proc = Pass(p)
         /\ now' = e.time
         /\ LookupSegment(p, e, e.time)
    /\ UNCHANGED <<policy, phase, passengers, schedule_by_stop, results>>
    /\ UNCHANGED dynamicVars

(* Mutant: the sample is recorded but the passenger is not counted. *)
PassengerBoardNoCount(p) ==
    /\ policy = "static" /\ phase = "running"
    /\ proc[p].pc = "to_bus"
    /\ \E e \in NextEvents(queue) :
         /\ e.kind = "timeout" /\ e.proc = Pass(p)
         /\ now' = e.time
         /\ wait_times' = Append(wait_times, proc[p].wait_time)
         /\ proc' = [proc EXCEPT ![p].pc = "ended", ![p].at = e.time]
         /\ queue' = (queue \ {e}) \cup {Event(e.time, FALSE, eid, "end", Pass(p))}
         /\ eid' = eid + 1
    /\ UNCHANGED <<policy, phase, passengers, schedule_by_stop, results,
                   passengers_failed, failed_log, passengers_served, served_log>>
    /\ UNCHANGED dynamicVars

(* The timeout for the bus fires: lines 134-135. *)
PassengerBoard(p) ==
    /\ policy = "static" /\ phase = "running"
    /\ proc[p].pc = "to_bus"
    /\ \E e \in NextEvents(queue) :
         /\ e.kind = "timeout" /\ e.proc = Pass(p)
         /\ now' = e.time
         /\ wait_times' = Append(wait_times, proc[p].wait_time)
         /\ passengers_served' = passengers_served + 1
         /\ served_log' = Append(served_log, p)
         /\ proc' = [proc EXCEPT ![p].pc = "ended", ![p].at = e.time]
         /\ queue' = (queue \ {e}) \cup {Event(e.time, FALSE, eid, "end", Pass(p))}
         /\ eid' = eid + 1
    /\ UNCHANGED <<policy, phase, passengers, schedule_by_stop, results,
                   passengers_failed, failed_log>>
    /\ UNCHANGED dynamicVars

(* The termination event of a process: nothing waits for it. *)
ProcessEnd ==
    /\ phase = "running"
    /\ \E e \in NextEvents(queue) :
         /\ e.kind = "end"
         /\ now' = e.time
         /\ queue' = queue \ {e}
    /\ UNCHANGED <<policy, phase, eid, passengers, schedule_by_stop, proc,
                   wait_times, passengers_failed, passengers_served, results,
                   served_log, failed_log>>
    /\ UNCHANGED dynamicVars

(* Mutant: the mean and the cost per passenger are divided out without    *)
(* the tests for an empty list and a zero count.                           *)
StaticGetResultsUnguarded ==
    [average_wait_minutes |-> Ratio(SumSeq(wait_times), Len(wait_times) * 60),
     total_cost |-> Money(TOTAL_KM),
     total_km |-> TOTAL_KM,
     passengers_served |-> passengers_served,
     passengers_failed |-> passengers_failed,
     cost_per_passenger |-> [amount |-> Money(TOTAL_KM), per |-> passengers_served]]

StaticGetResults ==
    [average_wait_minutes |->
        IF wait_times # <<>>
        THEN Ratio(SumSeq(wait_times), Len(wait_times) * 60) ELSE Zero,
     total_cost |-> Money(TOTAL_KM),
     total_km |-> TOTAL_KM,
     passengers_served |-> passengers_served,
     passengers_failed |-> passengers_failed,
     cost_per_passenger |->
        IF passengers_served > 0
        THEN [amount |-> Money(TOTAL_KM), per |-> passengers_served]
        ELSE [amount |-> Money(0), per |-> 1]]

(* A call of get_results(): the dictionary it returns, and the fields it   *)
(* reads stay as they are.                                                 *)
StaticGetResultsCall ==
    /\ results' = StaticGetResults
    /\ UNCHANGED <<wait_times, passengers_failed, passengers_served>>

(* env.run() returns when no event remains; run() returns get_results(). *)
StaticFinish ==
    /\ policy = "static" /\ phase = "running"
    /\ queue = {}
    /\ StaticGetResultsCall
    /\ phase' = "done"
    /\ UNCHANGED <<policy, now, queue, eid, passengers, schedule_by_stop, proc,
                   served_log, failed_log>>
    /\ UNCHANGED dynamicVars

(* run_simulation: print_results() after run() calls get_results() again. *)
StaticPrintResults ==
    /\ policy = "static" /\ phase = "done"
    /\ StaticGetResultsCall
    /\ phase' = "reported"
    /\ UNCHANGED <<policy, now, queue, eid, passengers, schedule_by_stop, proc,
                   served_log, failed_log>>
    /\ UNCHANGED dynamicVars

-----------------------------------------------------------------------------
(* Initial states *)

StaticPassenger ==
    [request_time : RequestTimes, origin_id : StaticOrigins, destination_id : {"S1"}]

StaticDatasets ==
    {ps \in UNION {[1..n -> StaticPassenger] : n \in 0..MaxPassengers} :
        IsSortedByRequestTime(ps)}

ScheduleChoices ==
    UNION {[D -> (SUBSET ArrivalTimes) \ {{}}] : D \in SUBSET StaticStops}

(* BaselineSimulation.__init__ and the loop of run() that starts one       *)
(* process per passenger (each an URGENT Initialize event at time 0).      *)
StaticInit ==
    /\ policy = "static"
    /\ phase = "running"
    /\ now = 0
    /\ passengers \in StaticDatasets
    /\ schedule_by_stop \in ScheduleChoices
    /\ queue = {Event(0, TRUE, p - 1, "init", Pass(p)) : p \in 1..Len(passengers)}
    /\ eid = Len(passengers)
    /\ proc = [p \in 1..Len(passengers) |->
                 [pc |-> "new", why |-> "", wait_time |-> 0, at |-> 0]]
    /\ wait_times = <<>>
    /\ passengers_failed = 0
    /\ passengers_served = 0
    /\ results = NoResult
    /\ served_log = <<>>
    /\ failed_log = <<>>
    /\ cluster_to_stops = <<>>
    /\ prophet_models = <<>>
    /\ model_files = {}
    /\ stop_coordinates = <<>>
    /\ stop_queues = <<>>
    /\ active_buses = <<>>
    /\ total_km = 0
    /\ gen = [i |-> 0, last_time |-> 0]
    /\ buses = <<>>
    /\ board_log = <<>>
    /\ arrival_log = <<>>

StaticNext ==
    \/ \E p \in 1..Len(passengers) : PassengerStart(p)
    \/ \E p \in 1..Len(passengers) : PassengerRequest(p)
    \/ \E p \in 1..Len(passengers) : PassengerBoard(p)
    \/ ProcessEnd
    \/ StaticFinish
    \/ StaticPrintResults

SpecStatic == StaticInit /\ [][StaticNext]_vars

-----------------------------------------------------------------------------
(* Dynamic policy: DynamicSimulation *)

(* Bounds of the dynamic inputs: a dataset is at most MaxBatches batches   *)
(* of passengers, a batch being 1 or BigBatch passengers with the same     *)
(* origin and request time.                                                *)
MaxBatches == 2
BigBatch == 61

DynStops == {"A", "B"}
StopOrder == <<"A", "B">>
DynRequestTimes == {0, 2000}
BatchSizes == {1, BigBatch}
(* The zone of a stop in stop_clusters.csv; Unmapped: the stop has no row. *)
Unmapped == -1
ZoneChoices == {0, 1, 12, Unmapped}

(* Program constants *)
BUS_CAPACITY == 60
DISPATCH_INTERVAL == 30 * 60
SIM_DURATION == 24 * 60 * 60
AVG_SPEED_KMPH == 18
HORIZON_BUFFER == 3 * 60 * 60
(* Mutant: an empty bus waits as long as the shortest trip. *)
IDLE_WAIT_AS_MIN_TRIP == 10 * 60
IDLE_WAIT == 5 * 60
MIN_TRIP == 10 * 60
MAX_TRIP == 60 * 60
FORECAST_LOOKAHEAD == 3600
ClusterRange == 0..9

NoStop == "None"
Gen == <<"gen", 0>>
Disp == <<"disp", 0>>
Bus(b) == <<"bus", b>>
Run == <<"run", 0>>

Max2(a, b) == IF a >= b THEN a ELSE b
Min2(a, b) == IF a <= b THEN a ELSE b
Abs(x) == IF x >= 0 THEN x ELSE -x
(* Mutant: the quotient is rounded down. *)
CeilAsFloor(n, d) == n \div d

(* math.ceil(n / d) for an integer n >= 0 and d > 0 *)
Ceil(n, d) == (n + d - 1) \div d

RECURSIVE SumLens(_, _)
SumLens(queues, stops) ==
    IF stops = <<>> THEN 0
    ELSE Len(queues[Head(stops)]) + SumLens(queues, Tail(stops))

(* self.cluster_to_stops.get(cluster_id, []) *)
ClusterStops(cluster_id) ==
    IF cluster_id \in DOMAIN cluster_to_stops
    THEN cluster_to_stops[cluster_id] ELSE <<>>

(* haversine_km: the great-circle distance of two positions, here points   *)
(* on one meridian given in km, so the distance is their difference.       *)
haversine_km(coord1, coord2) == Abs(coord1 - coord2)

(* model.predict(future)["yhat"].iloc[0]: a model is a step function of    *)
(* the forecast time.                                                      *)
Predict(model, forecast_time) ==
    IF forecast_time <= model.until THEN model.peak ELSE model.base

(* Mutant: the loop tests queue_len >= max_queue, the last longest wins. *)
RECURSIVE BusiestLoopLastMax(_, _, _, _, _)
BusiestLoopLastMax(queues, cluster_stops, i, busiest_stop, max_queue) ==
    IF i > Len(cluster_stops) THEN busiest_stop
    ELSE LET queue_len == Len(queues[cluster_stops[i]]) IN
         IF queue_len >= max_queue
         THEN BusiestLoopLastMax(queues, cluster_stops, i + 1, cluster_stops[i], queue_len)
         ELSE BusiestLoopLastMax(queues, cluster_stops, i + 1, busiest_stop, max_queue)

(* The loop of _select_busiest_stop over cluster_stops[i..]. *)
RECURSIVE BusiestLoop(_, _, _, _, _)
BusiestLoop(queues, cluster_stops, i, busiest_stop, max_queue) ==
    IF i > Len(cluster_stops) THEN busiest_stop
    ELSE LET queue_len == Len(queues[cluster_stops[i]]) IN
         IF queue_len > max_queue
         THEN BusiestLoop(queues, cluster_stops, i + 1, cluster_stops[i], queue_len)
         ELSE BusiestLoop(queues, cluster_stops, i + 1, busiest_stop, max_queue)

(* Mutant: the first stop of the cluster, whatever the queues. *)
select_first_stop(queues, cluster_id) ==
    IF ClusterStops(cluster_id) = <<>> THEN NoStop ELSE ClusterStops(cluster_id)[1]

select_busiest_stop(queues, cluster_id) ==
    LET cluster_stops == ClusterStops(cluster_id) IN
    IF cluster_stops = <<>> THEN NoStop
    ELSE LET busiest_stop == BusiestLoop(queues, cluster_stops, 1, NoStop, 0) IN
         IF busiest_stop = NoStop THEN cluster_stops[1] ELSE busiest_stop

(* Mutant: the queues of all stops are summed, whatever their cluster. *)
QueueSizeAllStops(cluster_id) == SumLens(stop_queues, StopOrder)

(* _dispatch_buses, one cluster: lines 142-153 *)
QueueSize(cluster_id) == SumLens(stop_queues, ClusterStops(cluster_id))

DemandMetric(cluster_id, t) ==
    Max2(0, Predict(prophet_models[cluster_id], t + FORECAST_LOOKAHEAD))
        + QueueSize(cluster_id)

BusesNeeded(cluster_id, t) == Ceil(DemandMetric(cluster_id, t), BUS_CAPACITY)

Additional(cluster_id, t) ==
    Max2(0, BusesNeeded(cluster_id, t) - active_buses[cluster_id])

(* Mutant: the spawn loop does not test the stop it is given. *)
SpawnedIgnoringStops(cluster_id, t) ==
    IF cluster_id \notin DOMAIN prophet_models THEN 0
    ELSE Additional(cluster_id, t)

(* The number of passes of the spawn loop (lines 155-160) that reach the   *)
(* increment: none when the cluster has no model (lines 138-140) or no     *)
(* stop.                                                                   *)
Spawned(cluster_id, t) ==
    IF cluster_id \notin DOMAIN prophet_models THEN 0
    ELSE IF select_busiest_stop(stop_queues, cluster_id) = NoStop THEN 0
    ELSE Additional(cluster_id, t)

NewBus(cluster_id, t) ==
    [cluster |-> cluster_id,
     stop |-> select_busiest_stop(stop_queues, cluster_id),
     pc |-> "new", board_stop |-> NoStop, boarded |-> <<>>,
     spawned_at |-> t, started_at |-> -1, duration |-> 0, ended_at |-> -1]

(* The bus processes one evaluation starts, in the order it starts them:   *)
(* clusters in range(10) order from cluster_id on.                         *)
RECURSIVE DispatchFrom(_, _)
DispatchFrom(cluster_id, t) ==
    IF cluster_id \notin ClusterRange THEN <<>>
    ELSE [k \in 1..Spawned(cluster_id, t) |-> NewBus(cluster_id, t)]
            \o DispatchFrom(cluster_id + 1, t)

(* The boarding loop of bus_process (lines 197-204): how many passengers   *)
(* a queue of length n gives up, and which.                                *)
(* Mutant: the loop tests len(boarded) <= BUS_CAPACITY. *)
BoardCountOffByOne(n) == Min2(n, BUS_CAPACITY + 1)

BoardCount(n) == Min2(n, BUS_CAPACITY)

(* Mutant: queue.pop() instead of queue.popleft(). *)
BoardFromRight(q) ==
    [boarded |-> [k \in 1..BoardCount(Len(q)) |-> q[Len(q) + 1 - k]],
     left |-> SubSeq(q, 1, Len(q) - BoardCount(Len(q)))]

(* queue.popleft() BoardCount times: the passengers taken, in the order    *)
(* they are taken, and the queue that is left.                             *)
Board(q) ==
    [boarded |-> SubSeq(q, 1, BoardCount(Len(q))),
     left |-> SubSeq(q, BoardCount(Len(q)) + 1, Len(q))]

(* Mutant: a completing bus is taken off the counter twice. *)
DecrementTwice(active) == Max2(0, active - 2)

(* Mutant: the counter is left as it is when a bus completes. *)
NoDecrement(active) == active

Decrement(active) == Max2(0, active - 1)

WaitOf(passenger, t) == t - passenger.arrival_time

(* Mutant: only waits greater than zero are recorded. *)
RECURSIVE WaitSamplesPositive(_, _)
WaitSamplesPositive(boarded, t) ==
    IF boarded = <<>> THEN <<>>
    ELSE (IF WaitOf(Head(boarded), t) > 0
          THEN <<WaitOf(Head(boarded), t)>> ELSE <<>>)
            \o WaitSamplesPositive(Tail(boarded), t)

(* lines 199-203: the samples appended for the passengers taken at time t *)
RECURSIVE WaitSamples(_, _)
WaitSamples(boarded, t) ==
    IF boarded = <<>> THEN <<>>
    ELSE (IF WaitOf(Head(boarded), t) >= 0
          THEN <<WaitOf(Head(boarded), t)>> ELSE <<>>)
            \o WaitSamples(Tail(boarded), t)

(* lines 208-221: the sum of the passengers' origin-destination distances  *)
RECURSIVE BusDistance(_)
BusDistance(boarded) ==
    IF boarded = <<>> THEN 0
    ELSE (IF /\ Head(boarded).origin_id \in DOMAIN stop_coordinates
             /\ Head(boarded).destination_id \in DOMAIN stop_coordinates
          THEN haversine_km(stop_coordinates[Head(boarded).origin_id],
                            stop_coordinates[Head(boarded).destination_id])
          ELSE 0)
            + BusDistance(Tail(boarded))

(* Mutant: the duration has the lower limit only. *)
TripDurationNoCap(bus_distance) ==
    Max2(MIN_TRIP, (bus_distance * 3600) \div AVG_SPEED_KMPH)

TripDuration(bus_distance) ==
    Max2(MIN_TRIP, Min2(MAX_TRIP, (bus_distance * 3600) \div AVG_SPEED_KMPH))

(* Mutant: only the first stop's queue is counted. *)
RemainingFirstStop(queues) == Len(queues[StopOrder[1]])

Remaining(queues) == SumLens(queues, StopOrder)

RECURSIVE QueuedIds(_, _)
QueuedIds(queues, stops) ==
    IF stops = <<>> THEN <<>>
    ELSE [k \in 1..Len(queues[Head(stops)]) |-> queues[Head(stops)][k].pid]
            \o QueuedIds(queues, Tail(stops))

DynamicGetResults ==
    LET remaining == Remaining(stop_queues)
        total_cost == Money(total_km)
        total_passengers == Len(passengers)
        served == total_passengers - remaining
    IN  [average_wait_minutes |->
            IF wait_times # <<>>
            THEN Ratio(SumSeq(wait_times), Len(wait_times) * 60) ELSE Zero,
         total_cost |-> total_cost,
         total_km |-> total_km,
         passengers_served |-> served,
         passengers_failed |-> remaining,
         cost_per_passenger |->
            IF served > 0 THEN [amount |-> total_cost, per |-> served]
            ELSE [amount |-> Money(0), per |-> 1]]

(* Mutant: the timeout is given the absolute request time. *)
DeltaAbsolute(wait_until, last_time) == Max2(0, wait_until)

(* passenger_generator, line 114: the delay to the next passenger *)
Delta(wait_until, last_time) == Max2(0, wait_until - last_time)

(* Mutant: get_results empties the stop queues it has counted. *)
DynamicGetResultsDraining ==
    /\ results' = DynamicGetResults
    /\ stop_queues' = [s \in DOMAIN stop_queues |-> <<>>]
    /\ UNCHANGED <<wait_times, total_km, passengers_served>>

(* A call of get_results(): the dictionary it returns, and the fields it   *)
(* reads stay as they are.                                                 *)
DynamicGetResultsCall ==
    /\ results' = DynamicGetResults
    /\ UNCHANGED <<stop_queues, wait_times, total_km, passengers_served>>

dynFrame == <<policy, passengers, schedule_by_stop, proc,
              passengers_failed, served_log, cluster_to_stops, prophet_models,
              model_files, stop_coordinates>>

(* Initialize event of passenger_generator: lines 110-115 up to the first  *)
(* yield, or the end of the generator when there is no passenger.          *)
GeneratorStart ==
    /\ policy = "dynamic" /\ phase = "running"
    /\ \E e \in NextEvents(queue) :
         /\ e.kind = "init" /\ e.proc = Gen
         /\ now' = e.time
         /\ IF Len(passengers) = 0
            THEN /\ queue' = (queue \ {e}) \cup {Event(e.time, FALSE, eid, "end", Gen)}
                 /\ gen' = [gen EXCEPT !.i = 0]
            ELSE LET wait_until == passengers[1].request_time
                     delta == Delta(wait_until, gen.last_time)
                 IN  /\ queue' = (queue \ {e})
                            \cup {Event(e.time + delta, FALSE, eid, "timeout", Gen)}
                     /\ gen' = [i |-> 1, last_time |-> wait_until]
         /\ eid' = eid + 1
    /\ UNCHANGED <<phase, wait_times, passengers_served, results, failed_log,
                   stop_queues, active_buses, total_km, buses, board_log,
                   arrival_log>>
    /\ UNCHANGED dynFrame

(* The generator's timeout fires: passenger gen.i is appended to the queue *)
(* of its origin stop (lines 117-124), then the loop goes to the next      *)
(* passenger's yield or ends.                                              *)
PassengerArrival ==
    /\ policy = "dynamic" /\ phase = "running"
    /\ \E e \in NextEvents(queue) :
         /\ e.kind = "timeout" /\ e.proc = Gen
         /\ now' = e.time
         /\ LET passenger == passengers[gen.i] IN
            stop_queues' = [stop_queues EXCEPT ![passenger.origin_id] =
                Append(@, [arrival_time |-> e.time,
                           origin_id |-> passenger.origin_id,
                           destination_id |-> passenger.destination_id,
                           pid |-> gen.i])]
         /\ arrival_log' = Append(arrival_log,
                [pid |-> gen.i, stop |-> passengers[gen.i].origin_id, time |-> e.time])
         /\ IF gen.i = Len(passengers)
            THEN /\ queue' = (queue \ {e}) \cup {Event(e.time, FALSE, eid, "end", Gen)}
                 /\ gen' = [gen EXCEPT !.i = 0]
            ELSE LET wait_until == passengers[gen.i + 1].request_time
                     delta == Delta(wait_until, gen.last_time)
                 IN  /\ queue' = (queue \ {e})
                            \cup {Event(e.time + delta, FALSE, eid, "timeout", Gen)}
                     /\ gen' = [i |-> gen.i + 1, last_time |-> wait_until]
         /\ eid' = eid + 1
    /\ UNCHANGED <<phase, wait_times, passengers_served, results, failed_log,
                   active_buses, total_km, buses, board_log>>
    /\ UNCHANGED dynFrame

(* Initialize event of ai_dispatcher: yield env.timeout(0), line 128. *)
DispatcherStart ==
    /\ policy = "dynamic" /\ phase = "running"
    /\ \E e \in NextEvents(queue) :
         /\ e.kind = "init" /\ e.proc = Disp
         /\ now' = e.time
         /\ queue' = (queue \ {e}) \cup {Event(e.time + 0, FALSE, eid, "timeout", Disp)}
         /\ eid' = eid + 1
    /\ UNCHANGED <<phase, wait_times, passengers_served, results, failed_log, gen,
                   stop_queues, active_buses, total_km, buses, board_log,
                   arrival_log>>
    /\ UNCHANGED dynFrame

(* The dispatcher's timeout fires: _dispatch_buses over range(10), then    *)
(* yield env.timeout(DISPATCH_INTERVAL) (lines 130-131).                   *)
DispatcherTick ==
    /\ policy = "dynamic" /\ phase = "running"
    /\ \E e \in NextEvents(queue) :
         /\ e.kind = "timeout" /\ e.proc = Disp
         /\ now' = e.time
         /\ LET new == DispatchFrom(0, e.time)
                n == Len(new)
            IN  /\ buses' = buses \o new
                /\ active_buses' =
                      [c \in ClusterRange |-> active_buses[c] + Spawned(c, e.time)]
                /\ queue' = (queue \ {e})
                      \cup {Event(e.time, TRUE, eid + k - 1, "init", Bus(Len(buses) + k)) :
                                k \in 1..n}
                      \cup {Event(e.time + DISPATCH_INTERVAL, FALSE, eid + n,
                                  "timeout", Disp)}
                /\ eid' = eid + n + 1
    /\ UNCHANGED <<phase, wait_times, passengers_served, results, failed_log, gen,
                   stop_queues, total_km, board_log, arrival_log>>
    /\ UNCHANGED dynFrame

(* Mutant: the bus boards at the stop chosen when it was dispatched. *)
BoardingStopAtDispatch(b) == buses[b].stop

(* bus_process, line 186: the busiest stop of the bus's cluster, resolved  *)
(* when the process starts.                                                *)
BoardingStop(b) == select_busiest_stop(stop_queues, buses[b].cluster)

(* Initialize event of bus_process b: lines 186-231 up to its yield. *)
BusStart(b) ==
    /\ policy = "dynamic" /\ phase = "running"
    /\ \E e \in NextEvents(queue) :
         /\ e.kind = "init" /\ e.proc = Bus(b)
         /\ now' = e.time
         /\ LET busiest_stop == BoardingStop(b) IN
            IF busiest_stop = NoStop
            THEN /\ buses' = [buses EXCEPT ![b].pc = "idle", ![b].started_at = e.time,
                                         ![b].duration = IDLE_WAIT]
                 /\ queue' = (queue \ {e})
                      \cup {Event(e.time + IDLE_WAIT, FALSE, eid, "timeout", Bus(b))}
                 /\ UNCHANGED <<stop_queues, wait_times, passengers_served,
                                total_km, board_log>>
            ELSE \E boarded \in {Board(stop_queues[busiest_stop]).boarded} :
                 LET bus_distance == BusDistance(boarded)
                     duration == IF boarded # <<>> THEN TripDuration(bus_distance)
                                 ELSE IDLE_WAIT
                 IN  /\ stop_queues' = [stop_queues EXCEPT ![busiest_stop] = Board(@).left]
                     /\ wait_times' = wait_times \o WaitSamples(boarded, e.time)
                     /\ passengers_served' = passengers_served + Len(boarded)
                     /\ board_log' = board_log \o
                           [k \in 1..Len(boarded) |->
                              [pid |-> boarded[k].pid, bus |-> b,
                               stop |-> busiest_stop, time |-> e.time,
                               wait_time |-> WaitOf(boarded[k], e.time)]]
                     /\ total_km' = IF boarded # <<>> THEN total_km + bus_distance
                                    ELSE total_km
                     /\ buses' = [buses EXCEPT
                           ![b].pc = IF boarded # <<>> THEN "trip" ELSE "idle",
                           ![b].board_stop = busiest_stop,
                           ![b].boarded = [k \in 1..Len(boarded) |-> boarded[k].pid],
                           ![b].started_at = e.time,
                           ![b].duration = duration]
                     /\ queue' = (queue \ {e})
                          \cup {Event(e.time + duration, FALSE, eid, "timeout", Bus(b))}
         /\ eid' = eid + 1
    /\ UNCHANGED <<phase, results, failed_log, gen, active_buses, arrival_log>>
    /\ UNCHANGED dynFrame

(* The bus's timeout fires: the decrement of lines 190 / 233, and the      *)
(* process ends.                                                           *)
BusEnd(b) ==
    /\ policy = "dynamic" /\ phase = "running"
    /\ \E e \in NextEvents(queue) :
         /\ e.kind = "timeout" /\ e.proc = Bus(b)
         /\ now' = e.time
         /\ active_buses' = [active_buses EXCEPT ![buses[b].cluster] = Decrement(@)]
         /\ buses' = [buses EXCEPT ![b].pc = "ended", ![b].ended_at = e.time]
         /\ queue' = (queue \ {e}) \cup {Event(e.time, FALSE, eid, "end", Bus(b))}
         /\ eid' = eid + 1
    /\ UNCHANGED <<phase, wait_times, passengers_served, results, failed_log, gen,
                   stop_queues, total_km, board_log, arrival_log>>
    /\ UNCHANGED dynFrame

(* The event of env.run(until=simulation_end) is popped: the run stops and *)
(* run() returns get_results() (lines 247-249).                            *)
HorizonReached ==
    /\ policy = "dynamic" /\ phase = "running"
    /\ \E e \in NextEvents(queue) :
         /\ e.kind = "until"
         /\ now' = e.time
         /\ queue' = queue \ {e}
    /\ DynamicGetResultsCall
    /\ failed_log' = QueuedIds(stop_queues, StopOrder)
    /\ phase' = "done"
    /\ UNCHANGED <<eid, gen, active_buses, buses, board_log, arrival_log>>
    /\ UNCHANGED dynFrame

(* main: print_results() after run() calls get_results() again. *)
DynamicPrintResults ==
    /\ policy = "dynamic" /\ phase = "done"
    /\ DynamicGetResultsCall
    /\ phase' = "reported"
    /\ UNCHANGED <<now, queue, eid, failed_log, gen, active_buses, buses,
                   board_log, arrival_log>>
    /\ UNCHANGED dynFrame

-----------------------------------------------------------------------------
(* Inputs of the dynamic policy *)

(* The destination differs from the origin (generate_passengers.py);       *)
(* stop "X" has no coordinates.                                            *)
DestinationOf(origin_id) == IF origin_id = "A" THEN "B" ELSE "X"

Batch == [n : BatchSizes, origin_id : DynStops, request_time : DynRequestTimes]

RECURSIVE Expand(_)
Expand(batches) ==
    IF batches = <<>> THEN <<>>
    ELSE [k \in 1..Head(batches).n |->
             [request_time |-> Head(batches).request_time,
              origin_id |-> Head(batches).origin_id,
              destination_id |-> DestinationOf(Head(batches).origin_id)]]
            \o Expand(Tail(batches))

(* A dataset with a steady stream at stop A: one passenger at A and one at *)
(* B at time 0, then one passenger at A before each of the next            *)
(* StarvationCycles evaluations of the dispatcher.                         *)
StarvationCycles == 3

StreamDataset ==
    Expand(<<[n |-> 1, origin_id |-> "A", request_time |-> 0],
             [n |-> 1, origin_id |-> "B", request_time |-> 0]>>
           \o [k \in 1..StarvationCycles |->
                  [n |-> 1, origin_id |-> "A",
                   request_time |-> k * DISPATCH_INTERVAL - 800]])

(* A dataset whose passenger requests at the time of an evaluation of the  *)
(* dispatcher: its arrival is scheduled before that evaluation is.         *)
TickDataset ==
    Expand(<<[n |-> 1, origin_id |-> "A", request_time |-> 2 * DISPATCH_INTERVAL]>>)

DynamicDatasets ==
    {Expand(bs) : bs \in {b \in UNION {[1..n -> Batch] : n \in 0..MaxBatches} :
                             IsSortedByRequestTime(b)}}
        \cup {StreamDataset, TickDataset}

ZoneAssignments == {z \in [DynStops -> ZoneChoices] : z["A"] = 0}

(* _load_clusters: cluster id -> its stops in the order of the rows *)
ClusterToStops(z) ==
    [c \in {z[s] : s \in DynStops} \ {Unmapped} |->
        SelectSeq(StopOrder, LAMBDA s : z[s] = c)]

ForecastModels ==
    { [peak |-> -5, base |-> -5, until |-> 0],
      [peak |-> 30, base |-> 0, until |-> 7200],
      [peak |-> 61, base |-> -5, until |-> 3600] }

(* The model files found in MODELS_DIR: all of range(10), or all but one. *)
ModelFileChoices == {ClusterRange, ClusterRange \ {0}, ClusterRange \ {1}}

(* model_path.exists() in every pass of the loop of _load_models *)
ModelPathsExist(files) == ClusterRange \subseteq files

(* The first cluster of range(10) whose model file does not exist. *)
MissingModel(files) ==
    CHOOSE c \in ClusterRange \ files : \A d \in ClusterRange \ files : c <= d

(* _load_models: the models of range(10), each unpickled from its file (m  *)
(* is what the files hold), or the FileNotFoundError of the first missing  *)
(* file.                                                                   *)
load_models(files, m) ==
    IF ModelPathsExist(files) THEN [c \in ClusterRange |-> m]
    ELSE [error |-> "FileNotFoundError", missing |-> MissingModel(files)]

(* Mutant: the run stops at the end of the day, without the buffer. *)
SimulationEndNoBuffer(ps) == SIM_DURATION

(* Mutant: the run stops at the first request time. *)
SimulationEndFirstRequest(ps) ==
    IF Len(ps) > 0 THEN ps[1].request_time ELSE SIM_DURATION

(* simulation_end of run(), lines 244-245 *)
SimulationEnd(ps) ==
    LET max_request_time ==
            IF Len(ps) > 0
            THEN CHOOSE m \in {ps[i].request_time : i \in 1..Len(ps)} :
                     \A i \in 1..Len(ps) : ps[i].request_time <= m
            ELSE SIM_DURATION
    IN  Max2(SIM_DURATION, max_request_time) + HORIZON_BUFFER

(* DynamicSimulation.__init__ and run() up to env.run(until=...); when     *)
(* _load_models raises, the constructor is left at line 60 and nothing is  *)
(* scheduled.                                                              *)
DynamicInit ==
    /\ policy = "dynamic"
    /\ now = 0
    /\ passengers \in DynamicDatasets
    /\ \E z \in ZoneAssignments : cluster_to_stops = ClusterToStops(z)
    /\ model_files \in ModelFileChoices
    /\ \E m \in ForecastModels : prophet_models = load_models(model_files, m)
    /\ stop_coordinates = [s \in DynStops |-> IF s = "A" THEN 0 ELSE 7]
    /\ IF ModelPathsExist(model_files)
       THEN /\ phase = "running"
            /\ queue = {Event(0, TRUE, 0, "init", Gen), Event(0, TRUE, 1, "init", Disp),
                        Event(SimulationEnd(passengers), TRUE, 2, "until", Run)}
            /\ eid = 3
       ELSE /\ phase = "config_error"
            /\ queue = {}
            /\ eid = 0
    /\ stop_queues = [s \in DynStops |-> <<>>]
    /\ active_buses = [c \in ClusterRange |-> 0]
    /\ wait_times = <<>>
    /\ total_km = 0
    /\ passengers_served = 0
    /\ results = NoResult
    /\ gen = [i |-> 0, last_time |-> 0]
    /\ buses = <<>>
    /\ board_log = <<>>
    /\ arrival_log = <<>>
    /\ served_log = <<>>
    /\ failed_log = <<>>
    /\ schedule_by_stop = <<>>
    /\ proc = <<>>
    /\ passengers_failed = 0

DynamicNext ==
    \/ GeneratorStart
    \/ PassengerArrival
    \/ DispatcherStart
    \/ DispatcherTick
    \/ \E b \in 1..Len(buses) : BusStart(b)
    \/ \E b \in 1..Len(buses) : BusEnd(b)
    \/ ProcessEnd
    \/ HorizonReached
    \/ DynamicPrintResults

SpecDynamic == DynamicInit /\ [][DynamicNext]_vars

-----------------------------------------------------------------------------
(* Either policy *)

Init == StaticInit \/ DynamicInit

Next ==
    \/ \E p \in 1..Len(passengers) : PassengerStart(p)
    \/ \E p \in 1..Len(passengers) : PassengerRequest(p)
    \/ \E p \in 1..Len(passengers) : PassengerBoard(p)
    \/ StaticFinish
    \/ GeneratorStart
    \/ PassengerArrival
    \/ DispatcherStart
    \/ DispatcherTick
    \/ \E b \in 1..Len(buses) : BusStart(b)
    \/ \E b \in 1..Len(buses) : BusEnd(b)
    \/ HorizonReached
    \/ ProcessEnd
    \/ StaticPrintResults
    \/ DynamicPrintResults

Spec == Init /\ [][Next]_vars

-----------------------------------------------------------------------------
(* Properties *)

Count(x, s) == Cardinality({i \in 1..Len(s) : s[i] = x})

BoardedIds == [k \in 1..Len(board_log) |-> board_log[k].pid]

PassengerIds == 1..Len(passengers)

(* C1: static policy: once run() has returned, passengers_served +         *)
(* passengers_failed is the number of passengers loaded, and every         *)
(* passenger was counted exactly once, as served or as failed.             *)
C1_StaticAccounting ==
    (policy = "static" /\ phase = "done") =>
        /\ results.passengers_served + results.passengers_failed = Len(passengers)
        /\ results.passengers_served = Len(served_log)
        /\ results.passengers_failed = Len(failed_log)
        /\ \A p \in PassengerIds : Count(p, served_log) + Count(p, failed_log) = 1

C1_Witness ==
    /\ policy = "static" /\ phase = "done"
    /\ Len(passengers) = MaxPassengers
    /\ results.passengers_served >= 1
    /\ results.passengers_failed >= 1

(* C2: dynamic policy: at the horizon the reported served and failed       *)
(* counts add up to the number of passengers; passengers_failed is the     *)
(* number of passengers then waiting in a stop queue, each of them counted *)
(* once and none of the boarded ones; no failure is counted before the     *)
(* finalization.                                                           *)
C2_DynamicAccounting ==
    policy = "dynamic" =>
        /\ phase = "running" => results = NoResult /\ failed_log = <<>>
        /\ phase = "done" =>
            /\ results.passengers_served + results.passengers_failed = Len(passengers)
            /\ results.passengers_failed = Len(failed_log)
            /\ results.passengers_failed =
                  Cardinality({p \in PassengerIds : Count(p, BoardedIds) = 0})
            /\ \A p \in PassengerIds :
                  Count(p, failed_log) + Count(p, BoardedIds) = 1

C2_Witness ==
    /\ policy = "dynamic" /\ phase = "done"
    /\ results.passengers_failed >= 1
    /\ results.passengers_served >= 1
    /\ \E s \in DynStops : Len(stop_queues[s]) >= 1 /\ s # StopOrder[1]

(* C3: every wait-time sample is >= 0.  Dynamic: the sample of a boarded   *)
(* passenger is the time of boarding minus the time it was enqueued.       *)
(* Static: it is the next scheduled arrival minus the request time.        *)
C3_WaitNonNegative ==
    /\ \A i \in 1..Len(wait_times) : wait_times[i] >= 0
    /\ policy = "dynamic" =>
          /\ Len(wait_times) = Len(board_log)
          /\ \A k \in 1..Len(board_log) :
                /\ wait_times[k] = board_log[k].wait_time
                /\ board_log[k].pid <= Len(arrival_log)
                /\ arrival_log[board_log[k].pid].pid = board_log[k].pid
                /\ wait_times[k] =
                      board_log[k].time - arrival_log[board_log[k].pid].time
    /\ policy = "static" =>
          /\ Len(wait_times) = Len(served_log)
          /\ \A i \in 1..Len(served_log) :
                LET passenger == passengers[served_log[i]] IN
                /\ passenger.origin_id \in DOMAIN schedule_by_stop
                /\ \E a \in schedule_by_stop[passenger.origin_id] :
                      wait_times[i] = a - passenger.request_time

C3_Witness ==
    /\ policy = "dynamic"
    /\ \E k \in 1..Len(board_log) :
          /\ board_log[k].time > passengers[board_log[k].pid].request_time
          /\ wait_times[k] > 0

(* C4: dynamic policy: at every stop the passengers are boarded in the     *)
(* order in which they were appended to the stop's queue.                  *)
ArrivedAt(s) ==
    LET l == SelectSeq(arrival_log, LAMBDA r : r.stop = s)
    IN  [k \in 1..Len(l) |-> l[k].pid]

BoardedAt(s) ==
    LET l == SelectSeq(board_log, LAMBDA r : r.stop = s)
    IN  [k \in 1..Len(l) |-> l[k].pid]

C4_Fifo ==
    policy = "dynamic" =>
        \A s \in DynStops :
            /\ Len(BoardedAt(s)) <= Len(ArrivedAt(s))
            /\ BoardedAt(s) = SubSeq(ArrivedAt(s), 1, Len(BoardedAt(s)))

C4_Witness ==
    /\ policy = "dynamic"
    /\ \E i, j \in 1..Len(board_log) :
          /\ i < j
          /\ board_log[i].stop = board_log[j].stop
          /\ board_log[i].bus # board_log[j].bus
          /\ passengers[board_log[i].pid].request_time
                < passengers[board_log[j].pid].request_time

(* C5: dynamic policy: no bus process boards more than BUS_CAPACITY        *)
(* passengers, however long the queue at its boarding stop.                *)
C5_Capacity ==
    policy = "dynamic" =>
        \A b \in 1..Len(buses) :
            /\ Len(buses[b].boarded) <= BUS_CAPACITY
            /\ Count(b, [k \in 1..Len(board_log) |-> board_log[k].bus])
                  = Len(buses[b].boarded)

C5_Witness ==
    /\ policy = "dynamic"
    /\ \E b \in 1..Len(buses) :
          /\ Len(buses[b].boarded) = BUS_CAPACITY
          /\ buses[b].started_at = now
          /\ stop_queues[buses[b].board_stop] # <<>>

(* C6: dynamic policy: active_buses of a zone is never negative, and it is *)
(* 0 whenever every bus spawned for the zone has completed.                *)
BusesOf(c) == {b \in 1..Len(buses) : buses[b].cluster = c}

C6_FleetCount ==
    policy = "dynamic" =>
        \A c \in ClusterRange :
            /\ active_buses[c] >= 0
            /\ (\A b \in BusesOf(c) : buses[b].pc = "ended") => active_buses[c] = 0

C6_Witness ==
    /\ policy = "dynamic"
    /\ \E c \in ClusterRange :
          /\ Cardinality(BusesOf(c)) >= 2
          /\ \A b \in BusesOf(c) : buses[b].pc = "ended"
          /\ active_buses[c] = 0

(* C7: determinism: in every reachable state of either policy the event    *)
(* the scheduler pops next is uniquely determined (event ids are unique,   *)
(* so the heap order is total), and every handler is a function of the     *)
(* state: a run on given inputs is one sequence of events and one result.  *)
C7_Deterministic ==
    /\ \A e, f \in queue : e.eid = f.eid => e = f
    /\ \A e \in queue : e.eid < eid
    /\ (phase = "running" /\ queue # {}) => Cardinality(NextEvents(queue)) = 1

C7_Witness ==
    /\ phase = "running"
    /\ \E e, f \in queue :
          /\ e # f /\ e.time = f.time /\ e.urgent = f.urgent
          /\ e \in NextEvents(queue)

(* C8: static policy: a served passenger's wait is T - request_time, T     *)
(* being the smallest arrival at its origin stop strictly after            *)
(* request_time; an arrival at request_time itself is not used.            *)
HasLaterArrival(p) ==
    /\ passengers[p].origin_id \in DOMAIN schedule_by_stop
    /\ \E a \in schedule_by_stop[passengers[p].origin_id] :
          a > passengers[p].request_time

Gap(p) ==
    LET later == {a \in schedule_by_stop[passengers[p].origin_id] :
                     a > passengers[p].request_time}
    IN  (CHOOSE T \in later : \A a \in later : T <= a) - passengers[p].request_time

C8_NextArrival ==
    policy = "static" =>
        /\ Len(wait_times) = Len(served_log)
        /\ \A i \in 1..Len(served_log) :
              /\ HasLaterArrival(served_log[i])
              /\ wait_times[i] = Gap(served_log[i])
              /\ wait_times[i] > 0

C8_Witness ==
    /\ policy = "static"
    /\ \E i, j \in 1..Len(served_log) :
          /\ passengers[served_log[i]].request_time = 3000
          /\ wait_times[i] = 600
          /\ passengers[served_log[j]].request_time
                \in schedule_by_stop[passengers[served_log[j]].origin_id]
          /\ wait_times[j] = 400

(* C9: static policy: a passenger whose origin stop has no schedule, or no *)
(* arrival strictly after request_time, is counted failed exactly once,    *)
(* never served, adds no wait sample; the run goes on to its end and the   *)
(* other passengers get their own outcome.                                 *)
C9_NoService ==
    policy = "static" =>
        /\ \A p \in PassengerIds :
              ~HasLaterArrival(p) =>
                  /\ Count(p, served_log) = 0
                  /\ Count(p, failed_log) = (IF proc[p].pc = "ended" THEN 1 ELSE 0)
                  /\ proc[p].pc \in {"new", "to_request", "ended"}
        /\ Len(wait_times) = Len(served_log)
        /\ phase = "running" => ENABLED StaticNext
        /\ phase = "done" =>
              \A p \in PassengerIds :
                  /\ proc[p].pc = "ended"
                  /\ (HasLaterArrival(p) /\ Gap(p) <= 2700) => Count(p, served_log) = 1

C9_Witness ==
    /\ policy = "static" /\ phase = "done"
    /\ \E p, q \in PassengerIds :
          /\ p < q
          /\ passengers[p].origin_id \notin DOMAIN schedule_by_stop
          /\ Count(p, failed_log) = 1
          /\ passengers[q].origin_id \in DOMAIN schedule_by_stop
          /\ \A a \in schedule_by_stop[passengers[q].origin_id] :
                a <= passengers[q].request_time
          /\ Count(q, failed_log) = 1

(* C10: static policy: a gap to the next arrival above 2700 s fails the    *)
(* passenger at its request time, without a suspension for the gap; a gap  *)
(* of at most 2700 s suspends the process for the gap, after which the     *)
(* passenger is served; no served wait is above 2700 s.                    *)
SampleOf(p) ==
    LET i == CHOOSE k \in 1..Len(served_log) : served_log[k] = p
    IN  wait_times[i]

C10_Timeout ==
    policy = "static" =>
        /\ \A i \in 1..Len(wait_times) : wait_times[i] <= 2700
        /\ \A p \in PassengerIds :
              HasLaterArrival(p) =>
                  /\ proc[p].pc = "to_bus" =>
                        /\ Gap(p) <= 2700
                        /\ \E e \in queue :
                              /\ e.proc = Pass(p) /\ e.kind = "timeout"
                              /\ e.time = passengers[p].request_time + Gap(p)
                  /\ (proc[p].pc = "ended" /\ Gap(p) > 2700) =>
                        /\ Count(p, failed_log) = 1
                        /\ Count(p, served_log) = 0
                        /\ proc[p].at = passengers[p].request_time
                  /\ (proc[p].pc = "ended" /\ Gap(p) <= 2700) =>
                        /\ Count(p, served_log) = 1
                        /\ Count(p, failed_log) = 0
                        /\ proc[p].at = passengers[p].request_time + Gap(p)
                        /\ SampleOf(p) = Gap(p)

C10_Witness ==
    /\ policy = "static" /\ phase = "done"
    /\ \E p, q \in PassengerIds :
          /\ HasLaterArrival(p) /\ Gap(p) = 2700 /\ Count(p, served_log) = 1
          /\ HasLaterArrival(q) /\ Gap(q) > 2700 /\ Count(q, failed_log) = 1
          /\ proc[q].at = passengers[q].request_time

(* The event a step pops from the heap, if any. *)
Popped == queue \ queue'

(* The step is an evaluation of the dispatcher. *)
IsDispatchStep == \E e \in Popped : e.kind = "timeout" /\ e.proc = Disp

(* The buses a step starts for cluster c. *)
NewBusesOf(c) == {b \in (Len(buses) + 1)..Len(buses') : buses'[b].cluster = c}

QueuedIn(c) ==
    Cardinality({<<s, k>> \in DynStops \X (1..Len(passengers)) :
                    /\ \E j \in 1..Len(ClusterStops(c)) : ClusterStops(c)[j] = s
                    /\ k <= Len(stop_queues[s])})

(* The least n with n * BUS_CAPACITY >= demand. *)
LeastFleet(demand) ==
    CHOOSE n \in 0..demand :
        /\ n * BUS_CAPACITY >= demand
        /\ n = 0 \/ (n - 1) * BUS_CAPACITY < demand

ForecastAt(c, t) == Predict(prophet_models[c], t + FORECAST_LOOKAHEAD)

ExpectedNewBuses(c, t) ==
    LET forecast == ForecastAt(c, t)
        demand == (IF forecast > 0 THEN forecast ELSE 0) + QueuedIn(c)
        short == LeastFleet(demand) - active_buses[c]
    IN  IF short > 0 THEN short ELSE 0

(* C11: at each evaluation of the dispatcher, for each cluster of          *)
(* range(10) that has at least one stop, the number of buses started is    *)
(* max(0, ceil((max(0, forecast) + queued) / BUS_CAPACITY) - active),      *)
(* queued being the passengers waiting at the cluster's stops and active   *)
(* the cluster's counter before the evaluation; the counter grows by that  *)
(* number.                                                                 *)
C11_DispatchSizing ==
    [][IsDispatchStep =>
          \A c \in ClusterRange \cap DOMAIN cluster_to_stops :
              /\ Cardinality(NewBusesOf(c)) = ExpectedNewBuses(c, now')
              /\ active_buses'[c] = active_buses[c] + ExpectedNewBuses(c, now')]_vars

(* 61 queued, a forecast that counts 0, no active bus: two buses started. *)
C11_Witness ==
    /\ policy = "dynamic" /\ phase = "running"
    /\ \E c \in ClusterRange \cap DOMAIN cluster_to_stops :
          /\ QueuedIn(c) = BigBatch
          /\ ForecastAt(c, now) <= 0
          /\ Cardinality(BusesOf(c)) = 2
          /\ \A b \in BusesOf(c) : buses[b].pc = "new" /\ buses[b].spawned_at = now
          /\ active_buses[c] = 2

(* The step starts bus b, and no passenger waits at a stop of its cluster. *)
IsIdleStart(b) ==
    /\ b \in 1..Len(buses) /\ buses[b].pc = "new" /\ buses'[b].pc # "new"
    /\ QueuedIn(buses[b].cluster) = 0

(* The step completes bus b, which boarded nobody. *)
IsIdleEnd(b) ==
    /\ b \in 1..Len(buses) /\ buses[b].pc # "ended" /\ buses'[b].pc = "ended"
    /\ buses[b].boarded = <<>>

(* C12: a bus that finds no waiting passenger when it boards takes nobody  *)
(* and leaves total_km, passengers_served, wait_times and every stop queue *)
(* as they are; it completes exactly 300 s after it started, and then      *)
(* takes exactly 1 off its cluster's counter and nothing off the others.   *)
C12_IdleBus ==
    [][\A b \in 1..Len(buses) :
          /\ IsIdleStart(b) =>
                /\ buses'[b].boarded = <<>>
                /\ UNCHANGED <<total_km, passengers_served, wait_times,
                               stop_queues, board_log, active_buses>>
          /\ IsIdleEnd(b) =>
                /\ now' = buses[b].started_at + 300
                /\ active_buses'[buses[b].cluster] =
                      active_buses[buses[b].cluster] - 1
                /\ \A c \in ClusterRange \ {buses[b].cluster} :
                      active_buses'[c] = active_buses[c]
                /\ UNCHANGED <<total_km, passengers_served, wait_times,
                               stop_queues>>]_vars

C12_Witness ==
    /\ policy = "dynamic"
    /\ \E b \in 1..Len(buses) :
          /\ buses[b].pc = "ended" /\ buses[b].boarded = <<>>
          /\ buses[b].ended_at = buses[b].started_at + 300
          /\ now = buses[b].ended_at
          /\ active_buses[buses[b].cluster] >= 1

Returned == phase \in {"done", "reported"}

(* C13: either policy: get_results divides by no zero; when it reports no  *)
(* passenger served, average_wait_minutes is 0 and cost_per_passenger is   *)
(* 0; with an empty dataset the run returns with 0 served and 0 failed.    *)
C13_NothingServed ==
    Returned =>
        /\ results.average_wait_minutes.den > 0
        /\ results.cost_per_passenger.per > 0
        /\ results.passengers_served = 0 =>
              /\ results.average_wait_minutes.num = 0
              /\ results.cost_per_passenger.amount = [rupees |-> 0, paise |-> 0]
        /\ Len(passengers) = 0 =>
              /\ results.passengers_served = 0
              /\ results.passengers_failed = 0

C13_Witness ==
    /\ policy = "static" /\ phase = "done"
    /\ Len(passengers) >= 1
    /\ wait_times = <<>>
    /\ results.passengers_served = 0
    /\ results.passengers_failed = Len(passengers)
    /\ results.cost_per_passenger = [amount |-> [rupees |-> 0, paise |-> 0], per |-> 1]

(* The fields get_results reads, of either simulation. *)
accumulated == <<wait_times, passengers_served, passengers_failed, total_km,
                 stop_queues, passengers>>

(* C14: a second get_results() right after the first (print_results after  *)
(* run, no event in between) returns the dictionary the first returned,    *)
(* and the call leaves every accumulated field as it was; either policy.   *)
C14_Idempotent ==
    [][(phase = "done" /\ phase' = "reported") =>
          /\ results # NoResult
          /\ results' = results
          /\ UNCHANGED accumulated
          /\ UNCHANGED <<now, queue>>]_vars

C14_Witness ==
    /\ policy = "dynamic" /\ phase = "reported"
    /\ results.passengers_failed >= 1
    /\ results.passengers_served >= 1
    /\ Len(wait_times) >= 1

(* A passenger arrival, a dispatcher evaluation, the start of a process or *)
(* the completion of a bus.                                                *)
IsHandlerEvent(e) == e.kind \in {"init", "timeout"}

(* C15 as stated: the events of one timestamp are executed before time    *)
(* advances and in the order they were scheduled, whatever their kind: the *)
(* event a step executes has the least event id of the pending events of   *)
(* its timestamp, and no pending event is earlier.                         *)
C15_ScheduledOrder ==
    [][\A e \in Popped : \A f \in queue :
          (IsHandlerEvent(e) /\ IsHandlerEvent(f)) =>
              /\ f.time >= e.time
              /\ f.time = e.time => e.eid <= f.eid]_vars

(* C15, amended: the events of one timestamp are executed before time      *)
(* advances; events of equal priority are executed in the order they were  *)
(* scheduled; a process start (URGENT) is executed before every pending     *)
(* timeout or process end (NORMAL) of its timestamp, so that a NORMAL event *)
(* is executed only when no URGENT event of its timestamp is pending.       *)
C15_PriorityThenScheduledOrder ==
    [][\A e \in Popped :
          /\ now <= e.time /\ now' = e.time
          /\ \A f \in (queue \cup queue') \ {e} :
                /\ f.time >= e.time
                /\ (f.time = e.time /\ f.urgent = e.urgent) => f.eid > e.eid
                /\ (f.time = e.time /\ f.urgent /\ ~e.urgent) => f \notin queue]_vars

(* A bus the dispatcher started at this timestamp has run its start while  *)
(* the generator's timeout of the same timestamp, scheduled before the     *)
(* bus's Initialize event, is still pending.                               *)
C15_Witness ==
    /\ policy = "dynamic" /\ phase = "running"
    /\ \E b \in 1..Len(buses) : \E f, d \in queue :
          /\ buses[b].spawned_at = now /\ buses[b].started_at = now
          /\ f.proc = Gen /\ f.kind = "timeout" /\ f.time = now
          /\ d.proc = Disp /\ d.kind = "timeout" /\ d.time = now + DISPATCH_INTERVAL
          /\ f.eid < d.eid - Cardinality({x \in 1..Len(buses) :
                                            buses[x].spawned_at = now})

Constructed == policy = "dynamic" /\ phase # "config_error"

(* C16 as stated: when the model file of a zone of the stop-to-zone        *)
(* mapping is missing, the constructor raises: no simulated time passes,   *)
(* nothing is scheduled and no result is produced.                         *)
C16_MissingArtifactFails ==
    (policy = "dynamic" /\ \E c \in DOMAIN cluster_to_stops : c \notin model_files) =>
        /\ phase = "config_error"
        /\ now = 0 /\ queue = {} /\ buses = <<>>
        /\ results = NoResult

(* The stops without a row in stop_clusters.csv. *)
UnmappedStops ==
    {s \in DynStops : \A c \in DOMAIN cluster_to_stops :
        \A j \in 1..Len(cluster_to_stops[c]) : cluster_to_stops[c][j] # s}

ArrivalsAt(s) == {k \in 1..Len(arrival_log) : arrival_log[k].stop = s}

(* What holds of the passengers of unmapped stops in every state. *)
UnmappedKept ==
    /\ \A s \in UnmappedStops :
          /\ Len(stop_queues[s]) = Cardinality(ArrivalsAt(s))
          /\ \A k \in 1..Len(stop_queues[s]) :
                passengers[stop_queues[s][k].pid].origin_id = s
    /\ \A k \in 1..Len(arrival_log) :
          passengers[k].origin_id \in UnmappedStops =>
              arrival_log[k].stop = passengers[k].origin_id
    /\ \A k \in 1..Len(board_log) :
          /\ board_log[k].stop \notin UnmappedStops
          /\ passengers[board_log[k].pid].origin_id \notin UnmappedStops
    /\ Returned =>
          LET failed == {failed_log[k] : k \in 1..Len(failed_log)} IN
          /\ \A p \in PassengerIds :
                passengers[p].origin_id \in UnmappedStops => p \in failed
          /\ results.passengers_failed >=
                Cardinality({p \in PassengerIds :
                                passengers[p].origin_id \in UnmappedStops})

(* The step appends a passenger to the queue of an unmapped stop. *)
IsUnmappedArrival ==
    /\ Len(arrival_log') = Len(arrival_log) + 1
    /\ arrival_log'[Len(arrival_log')].stop \in UnmappedStops

(* C17: a passenger whose origin stop has no row in the mapping is         *)
(* appended to the queue of that stop and stays there: no bus boards it,   *)
(* its arrival changes no cluster's queue size, demand metric or active    *)
(* count and starts no bus, the run goes on to its end, and the passenger  *)
(* is among those reported failed.                                         *)
C17_UnmappedOrigin ==
    [][Constructed =>
          /\ UnmappedKept'
          /\ IsUnmappedArrival =>
                /\ \A c \in ClusterRange : \A e \in Popped :
                      /\ QueueSize(c)' = QueueSize(c)
                      /\ DemandMetric(c, e.time)' = DemandMetric(c, e.time)
                /\ UNCHANGED <<active_buses, buses, phase>>]_vars

C17_Witness ==
    /\ policy = "dynamic" /\ phase = "done"
    /\ \E s \in UnmappedStops :
          /\ Len(stop_queues[s]) >= 1
          /\ \E k \in 1..Len(failed_log) : passengers[failed_log[k]].origin_id = s
    /\ Len(board_log) >= 1

Unfinished(c) == {b \in BusesOf(c) : buses[b].pc # "ended"}

(* C18: in every reachable state the active count of a cluster is the      *)
(* number of its buses started by the dispatcher and not yet completed (a  *)
(* bus counts from the evaluation that starts it, before it runs); so the  *)
(* count is at least 1 when a bus completes and the clamp at 0 changes     *)
(* nothing.                                                                *)
C18_ActiveIsUnfinished ==
    Constructed =>
        \A c \in ClusterRange :
            /\ active_buses[c] = Cardinality(Unfinished(c))
            /\ Unfinished(c) # {} => active_buses[c] - 1 >= 0

C18_Witness ==
    /\ policy = "dynamic"
    /\ \E c \in ClusterRange :
          /\ \E b \in BusesOf(c) : buses[b].pc = "ended"
          /\ \E b \in BusesOf(c) : buses[b].pc = "new"
          /\ \E b \in BusesOf(c) : buses[b].pc = "trip"
          /\ active_buses[c] >= 2

(* C19: the dataset being sorted by request_time with times in 0..86399:   *)
(* passenger k is the k-th appended, once, to the queue of its own origin  *)
(* stop, at simulated time request_time, and the enqueue stamp is that     *)
(* time; a passenger not yet appended has a request time not yet passed,   *)
(* and by the end of the run all are appended.                             *)
C19_ArrivalTiming ==
    Constructed =>
        /\ Len(arrival_log) <= Len(passengers)
        /\ \A k \in 1..Len(arrival_log) :
              /\ arrival_log[k].pid = k
              /\ arrival_log[k].stop = passengers[k].origin_id
              /\ arrival_log[k].time = passengers[k].request_time
        /\ \A s \in DynStops : \A j \in 1..Len(stop_queues[s]) :
              LET entry == stop_queues[s][j] IN
              /\ entry.pid <= Len(arrival_log)
              /\ passengers[entry.pid].origin_id = s
              /\ entry.arrival_time = passengers[entry.pid].request_time
        /\ \A p \in PassengerIds :
              p > Len(arrival_log) => passengers[p].request_time >= now
        /\ Returned => Len(arrival_log) = Len(passengers)

C19_Witness ==
    /\ policy = "dynamic" /\ phase = "running"
    /\ Len(passengers) >= 2
    /\ Len(arrival_log) = Len(passengers)
    /\ arrival_log[1].time = 0
    /\ arrival_log[Len(arrival_log)].time = 2000
    /\ arrival_log[1].stop # arrival_log[Len(arrival_log)].stop
    /\ now = 2000

ActiveOf(c) == IF c \in DOMAIN active_buses THEN active_buses[c] ELSE 0

DemandOf(c, t) ==
    (IF c \in DOMAIN prophet_models /\ ForecastAt(c, t) > 0
     THEN ForecastAt(c, t) ELSE 0) + QueuedIn(c)

(* C20 as stated: every evaluation of the dispatcher evaluates every zone  *)
(* of the mapping, whatever its id: a zone with passengers queued at its   *)
(* stops and fewer active buses than it needs is given new buses by that   *)
(* evaluation.                                                             *)
C20_EveryZoneEvaluated ==
    [][IsDispatchStep =>
          \A c \in DOMAIN cluster_to_stops : \A e \in Popped :
              (QueuedIn(c) > 0 /\ ActiveOf(c) < LeastFleet(DemandOf(c, e.time)))
                  => NewBusesOf(c) # {}]_vars

(* The position of the first longest queue among the stops of a cluster. *)
FirstLongest(c) ==
    LET stops == ClusterStops(c) IN
    CHOOSE i \in 1..Len(stops) :
        /\ \A j \in 1..Len(stops) :
              Len(stop_queues[stops[j]]) <= Len(stop_queues[stops[i]])
        /\ \A j \in 1..(i - 1) :
              Len(stop_queues[stops[j]]) < Len(stop_queues[stops[i]])

(* C21: for a cluster with a stop, _select_busiest_stop returns the stop   *)
(* with the longest queue, the first of them in the cluster's stop order   *)
(* when several are longest, hence the first stop when all queues are      *)
(* empty; it returns None exactly for a cluster without stops.             *)
C21_BusiestStop ==
    Constructed =>
        \A c \in ClusterRange \cup DOMAIN cluster_to_stops :
            LET stops == ClusterStops(c)
                chosen == select_busiest_stop(stop_queues, c)
            IN  /\ stops = <<>> <=> chosen = NoStop
                /\ stops # <<>> =>
                      /\ chosen = stops[FirstLongest(c)]
                      /\ (\A j \in 1..Len(stops) : stop_queues[stops[j]] = <<>>)
                            => chosen = stops[1]

(* Two stops of one cluster with queues of the same length, not empty. *)
C21_Witness ==
    /\ policy = "dynamic" /\ phase = "running"
    /\ \E c \in DOMAIN cluster_to_stops :
          /\ Len(cluster_to_stops[c]) = 2
          /\ Len(stop_queues[cluster_to_stops[c][1]]) >= 1
          /\ Len(stop_queues[cluster_to_stops[c][1]])
                = Len(stop_queues[cluster_to_stops[c][2]])
          /\ select_busiest_stop(stop_queues, c) = cluster_to_stops[c][1]

(* The step runs the start of bus b. *)
IsBusStart(b) == b \in 1..Len(buses) /\ buses[b].pc = "new" /\ buses'[b].pc # "new"

(* C22: a bus boards from one stop only: the stop of its own cluster whose *)
(* queue is longest when the bus's process starts (the first such stop),   *)
(* whatever stop the dispatcher chose when it started the bus; the queue   *)
(* of every other stop, of its cluster or of another, stays as it is, also *)
(* when the bus has room left.                                             *)
C22_BoardingTarget ==
    [][\A b \in 1..Len(buses) : IsBusStart(b) =>
          LET c == buses[b].cluster
              target == ClusterStops(c)[FirstLongest(c)]
          IN  /\ ClusterStops(c) # <<>>
              /\ buses'[b].board_stop = target
              /\ \A s \in DynStops \ {target} : stop_queues'[s] = stop_queues[s]
              /\ \A k \in (Len(board_log) + 1)..Len(board_log') :
                    board_log'[k].stop = target /\ board_log'[k].bus = b
              /\ Len(stop_queues'[target]) + Len(buses'[b].boarded)
                    = Len(stop_queues[target])]_vars

(* A bus dispatched to one stop has boarded at another stop of its         *)
(* cluster, with room left, while passengers stay queued at the first.     *)
C22_Witness ==
    /\ policy = "dynamic"
    /\ \E b \in 1..Len(buses) :
          /\ buses[b].pc = "trip"
          /\ buses[b].started_at = now
          /\ buses[b].board_stop # buses[b].stop
          /\ Len(buses[b].boarded) < BUS_CAPACITY
          /\ stop_queues[buses[b].stop] # <<>>

(* The buses of cluster c that started after time t. *)
StartedAfter(c, t) == {b \in BusesOf(c) : buses[b].started_at > t}

InCluster(s, c) == \E j \in 1..Len(ClusterStops(c)) : ClusterStops(c)[j] = s

TripKm(p) ==
    IF /\ passengers[p].origin_id \in DOMAIN stop_coordinates
       /\ passengers[p].destination_id \in DOMAIN stop_coordinates
    THEN Abs(stop_coordinates[passengers[p].origin_id]
                - stop_coordinates[passengers[p].destination_id])
    ELSE 0

RECURSIVE SumOfKm(_)
SumOfKm(D) ==
    IF D = {} THEN 0
    ELSE LET d == CHOOSE x \in D : TRUE IN
         d * Cardinality({k \in 1..Len(board_log) : TripKm(board_log[k].pid) = d})
            + SumOfKm(D \ {d})

(* The distances of all passengers boarded so far, each counted once. *)
BoardedKm == SumOfKm({TripKm(board_log[k].pid) : k \in 1..Len(board_log)})

(* C24: total_km is the sum of the trip distances of the passengers        *)
(* boarded so far, a passenger without an origin or destination coordinate *)
(* counting 0: a bus adds its distance once, when it has boarded, and      *)
(* nothing else changes the total; a bus that boarded somebody is          *)
(* suspended for 600..3600 s and completes exactly then.                   *)
C24_Trip ==
    Constructed =>
        /\ total_km = BoardedKm
        /\ total_km >= 0
        /\ \A b \in 1..Len(buses) : buses[b].boarded # <<>> =>
              /\ buses[b].duration >= 600 /\ buses[b].duration <= 3600
              /\ buses[b].pc \in {"trip", "ended"}
              /\ (buses[b].pc = "trip" /\ phase = "running") =>
                    \E e \in queue :
                        /\ e.proc = Bus(b) /\ e.kind = "timeout"
                        /\ e.time = buses[b].started_at + buses[b].duration
              /\ buses[b].pc = "ended" =>
                    buses[b].ended_at = buses[b].started_at + buses[b].duration

(* A full bus whose trip was cut to 60 minutes and a bus whose passenger   *)
(* has no destination coordinate, both completed.                          *)
C24_Witness ==
    /\ policy = "dynamic"
    /\ \E b, d \in 1..Len(buses) :
          /\ buses[b].pc = "ended" /\ Len(buses[b].boarded) = BUS_CAPACITY
          /\ buses[b].duration = 3600
          /\ buses[d].pc = "ended" /\ Len(buses[d].boarded) = 1
          /\ TripKm(buses[d].boarded[1]) = 0
          /\ buses[d].duration = 600
    /\ total_km > 0

(* What becomes of a request at stop origin_id at time request_time under  *)
(* schedule: a function of these three alone.                              *)
OwnOutcome(origin_id, request_time, schedule) ==
    LET later == IF origin_id \in DOMAIN schedule
                 THEN {a \in schedule[origin_id] : a > request_time} ELSE {}
        first == CHOOSE a \in later : \A x \in later : a <= x
    IN  IF later # {} /\ first - request_time <= 2700
        THEN [served |-> TRUE, wait |-> first - request_time,
              at |-> first]
        ELSE [served |-> FALSE, wait |-> 0, at |-> request_time]

(* C25: static policy: the outcome of a passenger (served or failed, its   *)
(* wait, the time its process ends) is the function OwnOutcome of its own  *)
(* origin stop, its own request time and the schedule, whatever other      *)
(* passengers the dataset holds, before or after it, and however far their *)
(* processes have come.                                                    *)
C25_Independent ==
    policy = "static" =>
        \A p \in PassengerIds : proc[p].pc = "ended" =>
            LET own == OwnOutcome(passengers[p].origin_id,
                                  passengers[p].request_time, schedule_by_stop)
            IN  /\ Count(p, served_log) = (IF own.served THEN 1 ELSE 0)
                /\ Count(p, failed_log) = (IF own.served THEN 0 ELSE 1)
                /\ own.served => SampleOf(p) = own.wait
                /\ proc[p].at = own.at

(* Two passengers at different stops, the first failed and the second      *)
(* served, the first ended while the second was still on its way.          *)
C25_Witness ==
    /\ policy = "static" /\ phase = "done"
    /\ Len(passengers) = 2
    /\ passengers[1].origin_id # passengers[2].origin_id
    /\ Count(1, failed_log) = 1
    /\ Count(2, served_log) = 1
    /\ proc[1].at < proc[2].at

(* max(one day, largest request_time) + 3 hours *)
Horizon ==
    LET times == {passengers[p].request_time : p \in PassengerIds} \cup {86400}
    IN  (CHOOSE m \in times : \A t \in times : t <= m) + 10800

(* What holds once run() has returned. *)
EndedRight ==
    /\ (policy = "static" /\ Returned) =>
          /\ queue = {}
          /\ \A p \in PassengerIds :
                /\ proc[p].pc = "ended"
                /\ Count(p, served_log) + Count(p, failed_log) = 1
    /\ (policy = "dynamic" /\ Returned) =>
          /\ now = Horizon
          /\ \E e \in queue : e.proc = Disp /\ e.kind = "timeout" /\ e.time >= Horizon
          /\ \A b \in 1..Len(buses) :
                buses[b].spawned_at < Horizon /\ buses[b].started_at < Horizon
                    /\ buses[b].ended_at < Horizon
          /\ \A k \in 1..Len(arrival_log) : arrival_log[k].time < Horizon

(* The action that executes event e can be taken. *)
HandlerEnabled(e) ==
    CASE e.kind = "until" -> ENABLED HorizonReached
      [] e.kind = "end" -> ENABLED ProcessEnd
      [] e.proc[1] = "pass" /\ e.kind = "init" -> ENABLED PassengerStart(e.proc[2])
      [] e.proc[1] = "pass" /\ e.kind = "timeout" ->
            ENABLED (PassengerRequest(e.proc[2]) \/ PassengerBoard(e.proc[2]))
      [] e.proc[1] = "gen" /\ e.kind = "init" -> ENABLED GeneratorStart
      [] e.proc[1] = "gen" /\ e.kind = "timeout" -> ENABLED PassengerArrival
      [] e.proc[1] = "disp" /\ e.kind = "init" -> ENABLED DispatcherStart
      [] e.proc[1] = "disp" /\ e.kind = "timeout" -> ENABLED DispatcherTick
      [] e.proc[1] = "bus" /\ e.kind = "init" -> ENABLED BusStart(e.proc[2])
      [] e.proc[1] = "bus" /\ e.kind = "timeout" -> ENABLED BusEnd(e.proc[2])
      [] OTHER -> FALSE

(* A run that has not returned can take a step, and in the dynamic run the *)
(* stop at the horizon is pending from the start.                          *)
CanGoOn ==
    phase = "running" =>
        /\ IF queue = {} THEN ENABLED StaticFinish
           ELSE \E e \in NextEvents(queue) : HandlerEnabled(e)
        /\ policy = "dynamic" =>
              \E e \in queue : e.kind = "until" /\ e.time = Horizon /\ now <= Horizon

(* Every step of a run brings it nearer to its end: it schedules an event  *)
(* with a new id, or takes an event off the heap, or returns.              *)
Advances ==
    \/ eid' > eid
    \/ eid' = eid /\ Cardinality(queue') < Cardinality(queue)
    \/ phase = "running" /\ phase' = "done"
    \/ phase = "done" /\ phase' = "reported"

(* C26: every run returns: no run is stuck before it has returned, every   *)
(* step advances it, and time is bounded by the horizon.  The static run   *)
(* returns when no event is left, every passenger process having ended     *)
(* with its one outcome; the dynamic run, whose dispatcher always has a    *)
(* next evaluation pending, returns at the time max(one day, largest       *)
(* request_time) + 3 hours exactly, and every event it has executed other  *)
(* than the stop itself is earlier than that time.                         *)
C26_Termination ==
    /\ [](EndedRight /\ CanGoOn)
    /\ [][/\ Advances
          /\ (policy = "dynamic" /\ phase = "running") =>
                \A e \in Popped : e.kind # "until" => e.time < Horizon
          /\ (policy = "static" /\ phase = "running" /\ phase' # "running") =>
                queue = {}]_vars

(* A dynamic run has returned at the horizon with the dispatcher's next    *)
(* evaluation and a bus's completion still pending.                        *)
C26_Witness ==
    /\ policy = "dynamic" /\ phase = "done"
    /\ now = 97200
    /\ \E e \in queue : e.proc = Disp /\ e.time = 97200
    /\ Cardinality(queue) >= 1
    /\ Len(board_log) >= 1

(* Every passenger was put on a stop queue, once, before the run stopped. *)
AllEnqueued ==
    /\ Len(arrival_log) = Len(passengers)
    /\ \A k \in 1..Len(arrival_log) :
          arrival_log[k].pid = k /\ arrival_log[k].time < now

(* C27: dynamic policy: once run() has returned, the passengers_served it  *)
(* reports (number of passengers minus the passengers still queued) is the *)
(* internal passengers_served counter, which is the number of passengers   *)
(* the buses took off the queues: every passenger was enqueued before the  *)
(* horizon, none was boarded twice and every one not boarded is queued.    *)
C27_ServedCount ==
    (policy = "dynamic" /\ Returned) =>
        /\ results.passengers_served = passengers_served
        /\ passengers_served = Len(board_log)
        /\ AllEnqueued
        /\ \A p \in PassengerIds :
              /\ Count(p, BoardedIds) <= 1
              /\ Count(p, BoardedIds) + Count(p, QueuedIds(stop_queues, StopOrder)) = 1

(* A returned dynamic run in which two buses have boarded passengers and   *)
(* a passenger is left on a queue.                                         *)
C27_Witness ==
    /\ policy = "dynamic" /\ Returned
    /\ results.passengers_served = passengers_served
    /\ Cardinality({board_log[k].bus : k \in 1..Len(board_log)}) >= 2
    /\ Remaining(stop_queues) >= 1

HasStops(c) == c \in DOMAIN cluster_to_stops /\ cluster_to_stops[c] # <<>>

(* C29: an evaluation of the dispatcher leaves the counter of each zone of *)
(* range(10) that has a stop at max(counter before, buses_needed), the     *)
(* buses it starts for the zone being the difference: never more than are  *)
(* needed, never fewer than were active; for a zone without a stop it      *)
(* starts no bus and leaves the counter as it was, whatever the forecast.  *)
C29_TopUp ==
    [][IsDispatchStep =>
          \A e \in Popped : \A c \in ClusterRange :
              IF HasStops(c)
              THEN /\ active_buses'[c] =
                        Max2(active_buses[c], LeastFleet(DemandOf(c, e.time)))
                   /\ Cardinality(NewBusesOf(c)) = active_buses'[c] - active_buses[c]
                   /\ active_buses'[c] >= active_buses[c]
              ELSE /\ NewBusesOf(c) = {}
                   /\ active_buses'[c] = active_buses[c]]_vars

(* Just after an evaluation: a zone with passengers queued had as many     *)
(* buses active as it needs and was given none, and a zone without a stop  *)
(* whose forecast is positive was given none either.                       *)
C29_Witness ==
    /\ policy = "dynamic" /\ phase = "running"
    /\ \E e \in queue :
          e.proc = Disp /\ e.kind = "timeout" /\ e.time = now + DISPATCH_INTERVAL
    /\ \E c \in ClusterRange :
          /\ HasStops(c) /\ QueuedIn(c) >= 1
          /\ active_buses[c] >= 1
          /\ LeastFleet(DemandOf(c, now)) <= active_buses[c]
          /\ \A b \in BusesOf(c) : buses[b].spawned_at < now
    /\ \E c \in ClusterRange :
          /\ ~HasStops(c) /\ ForecastAt(c, now) > 0
          /\ BusesOf(c) = {} /\ active_buses[c] = 0

====
